---- MODULE Spec2Model ----
(***************************************************************************)
(* Model of the EtcdPeer reconciler of etcd-cluster-operator:              *)
(*   controllers/etcdpeer_controller.go  (GetState, Reconcile)             *)
(*   controllers/peer/actions.go         (PVCDeleter.Execute)              *)
(* The control-plane store holds, per identity, one peer declaration, one  *)
(* volume claim (PVC) and one workload (ReplicaSet).  A reconciliation     *)
(* pass is a sequence of store calls (three reads, then at most the calls  *)
(* of the selected action); the control plane and other actors act         *)
(* between any two of them.                                                *)
(***************************************************************************)
EXTENDS Integers, Sequences, FiniteSets, TLC

\* Number of distinct declaration contents (storage template / pod template
\* versions) a peer can carry.  Content 0 is content no declaration produces.
NumSpecs == 1

\* Number of back-to-back passes whose effects are remembered per identity.
MaxTrail == 3

\* The identities (metadata.name) of the peers of the sample cluster.
Ids == {"one"}

Specs == 1..NumSpecs

VARIABLES
    peer,     \* store: identity -> EtcdPeer object
    pvc,      \* store: identity -> PersistentVolumeClaim object
    rs,       \* store: identity -> ReplicaSet object
    pc,       \* position of the pass running for an identity
    snap,     \* the State collected by the pass (peer, pvc, replicaSet)
    rd,       \* the errors returned by the reads of GetState, in order
    action,   \* the action selected by the pass
    got,      \* what PVCDeleter.Execute's own read of the PVC returned
    muts,     \* the mutating store calls the pass issued, with their outcome
    result,   \* the error returned by Reconcile: "nil" or "err"
    trail,    \* effects of the last successful passes run back to back
    tainted,  \* the store for this identity changed under the running pass
    call,     \* the call of a builder or router function under examination
    start     \* the store the passes of a parallel run started from

vars == <<peer, pvc, rs, pc, snap, rd, action, got, muts, result, trail, tainted,
          call, start>>
store == <<peer, pvc, rs>>
local == <<pc, snap, rd, action, got, muts, result>>
\* What the reconciler and the control plane never touch.
aside == <<call, start>>

----------------------------------------------------------------------------
\* Objects of the store

NoPeer == [present |-> FALSE, deleting |-> FALSE, finalizer |-> FALSE,
           valid |-> FALSE, spec |-> 0]
NoPVC == [present |-> FALSE, deleting |-> FALSE, spec |-> 0]
NoRS == [present |-> FALSE, spec |-> 0]

PeerObjects ==
    {NoPeer} \cup [present : {TRUE}, deleting : BOOLEAN, finalizer : BOOLEAN,
                   valid : BOOLEAN, spec : Specs]
PVCObjects == {NoPVC} \cup [present : {TRUE}, deleting : BOOLEAN, spec : 0..NumSpecs]
RSObjects == {NoRS} \cup [present : {TRUE}, spec : 0..NumSpecs]

NoState == [peer |-> NoPeer, pvc |-> NoPVC, replicaSet |-> NoRS]

\* No function is under examination.
NoCall == [fn |-> "none", arg |-> <<>>, out |-> <<>>]

\* No parallel run is under examination.
NoStart == <<>>

----------------------------------------------------------------------------
\* Desired-state builder

\* The claim derived from a declaration: named after the peer, carrying the
\* declaration's storage template.
pvcForPeer(p) == [present |-> TRUE, deleting |-> FALSE, spec |-> p.spec]

\* The workload derived from a declaration.
defineReplicaSet(p) == [present |-> TRUE, spec |-> p.spec]

hasPvcDeletionFinalizer(p) == p.finalizer

\* !DeletionTimestamp.IsZero()
IsDeleting(o) == o.deleting

\* Validation of the declaration (api package): the declaration carries
\* whether it satisfies the rules.
ValidateCreate(p) == p.valid

----------------------------------------------------------------------------
\* Store calls.  Every call can fail with a transient error ("err").

StoreGet(obj, fail) ==
    IF fail THEN "err" ELSE IF obj.present THEN "nil" ELSE "notfound"

StoreCreate(obj, fail) ==
    IF fail THEN "err" ELSE IF obj.present THEN "exists" ELSE "nil"

StoreDelete(obj, fail) ==
    IF fail THEN "err" ELSE IF obj.present THEN "nil" ELSE "notfound"

StorePatch(obj, fail) ==
    IF fail THEN "err" ELSE IF obj.present THEN "nil" ELSE "notfound"

\* client.IgnoreNotFound
IgnoreNotFound(e) == IF e = "notfound" THEN "nil" ELSE e

Mut(op, kind, res) == [op |-> op, kind |-> kind, res |-> res]

----------------------------------------------------------------------------
\* Bookkeeping of back-to-back passes

\* The store mutation a finished pass made ("none" when it made none).
Effect(ms) ==
    IF \E i \in 1..Len(ms) : ms[i].res = "nil"
    THEN LET i == CHOOSE j \in 1..Len(ms) : ms[j].res = "nil"
         IN IF ms[i].op = "patch" THEN "patch"
            ELSE IF ms[i].op = "delete" THEN "delete-pvc"
            ELSE IF ms[i].kind = "pvc" THEN "create-pvc" ELSE "create-rs"
    ELSE "none"

\* The trail keeps the first MaxTrail effects; the effect of every later pass
\* replaces the last entry.
Extend(tr, e) ==
    IF Len(tr) < MaxTrail THEN Append(tr, e) ELSE [tr EXCEPT ![MaxTrail] = e]

\* Someone other than the pass changed an object of identity id.
Touch(id) ==
    /\ trail' = [trail EXCEPT ![id] = <<>>]
    /\ tainted' = [tainted EXCEPT ![id] = (pc[id] # "idle")]

----------------------------------------------------------------------------
\* StateCollector.GetState

\* ReadAborts with the not-found result no longer ignored.
ReadAborts_Strict(err) == err # "nil"

\* Whether a read's error aborts the collection.
ReadAborts(err) == IgnoreNotFound(err) # "nil"

\* One of the three reads: obj is the object the store holds under the
\* identity, absent the value recorded for "not found".
GetStateRead(id, at, field, obj, absent, next) ==
    /\ pc[id] = at
    /\ \E fail \in BOOLEAN :
          LET err == StoreGet(obj, fail) IN
          /\ rd' = [rd EXCEPT ![id] = Append(@, err)]
          /\ IF ReadAborts(err)
             THEN /\ pc' = [pc EXCEPT ![id] = "done"]
                  /\ result' = [result EXCEPT ![id] = "err"]
                  /\ snap' = [snap EXCEPT ![id] = NoState]
             ELSE /\ pc' = [pc EXCEPT ![id] = next]
                  /\ result' = result
                  /\ snap' = [snap EXCEPT ![id][field] =
                                 IF err = "nil" THEN obj ELSE absent]
    /\ UNCHANGED <<aside, store, action, got, muts, trail, tainted>>

GetPeer(id) == GetStateRead(id, "idle", "peer", peer[id], NoPeer, "gotPeer")
GetPVC(id) == GetStateRead(id, "gotPeer", "pvc", pvc[id], NoPVC, "gotPVC")
GetReplicaSet(id) ==
    GetStateRead(id, "gotPVC", "replicaSet", rs[id], NoRS, "collected")

----------------------------------------------------------------------------
\* EtcdPeerReconciler.Reconcile, after the collection

\* Decide with the provisioning cases ahead of the deletion cases.
Decide_CreateFirst(st) ==
    IF ~st.pvc.present THEN "CreatePVC"
    ELSE IF ~st.replicaSet.present THEN "CreateRS"
    ELSE IF IsDeleting(st.peer) /\ hasPvcDeletionFinalizer(st.peer) THEN "Cleanup"
    ELSE IF IsDeleting(st.peer) THEN "Noop"
    ELSE "nil"

\* Decide with the workload case ahead of the claim case.
Decide_RSFirst(st) ==
    IF IsDeleting(st.peer) /\ hasPvcDeletionFinalizer(st.peer) THEN "Cleanup"
    ELSE IF IsDeleting(st.peer) THEN "Noop"
    ELSE IF ~st.replicaSet.present THEN "CreateRS"
    ELSE IF ~st.pvc.present THEN "CreatePVC"
    ELSE "nil"

\* Decide without the case of a deleted peer that needs no cleanup.
Decide_NoNoop(st) ==
    IF IsDeleting(st.peer) /\ hasPvcDeletionFinalizer(st.peer) THEN "Cleanup"
    ELSE IF ~st.pvc.present THEN "CreatePVC"
    ELSE IF ~st.replicaSet.present THEN "CreateRS"
    ELSE "nil"

\* Decide that re-creates a claim or workload that differs from the desired one.
Decide_FixDrift(st) ==
    IF IsDeleting(st.peer) /\ hasPvcDeletionFinalizer(st.peer) THEN "Cleanup"
    ELSE IF IsDeleting(st.peer) THEN "Noop"
    ELSE IF st.pvc # pvcForPeer(st.peer) THEN "CreatePVC"
    ELSE IF st.replicaSet # defineReplicaSet(st.peer) THEN "CreateRS"
    ELSE "nil"

\* Decide without the case that creates the workload.
Decide_NoWorkload(st) ==
    IF IsDeleting(st.peer) /\ hasPvcDeletionFinalizer(st.peer) THEN "Cleanup"
    ELSE IF IsDeleting(st.peer) THEN "Noop"
    ELSE IF ~st.pvc.present THEN "CreatePVC"
    ELSE "nil"

\* Decide that cleans up for every deleted peer, finalizer or not.
Decide_CleanupAlways(st) ==
    IF IsDeleting(st.peer) THEN "Cleanup"
    ELSE IF ~st.pvc.present THEN "CreatePVC"
    ELSE IF ~st.replicaSet.present THEN "CreateRS"
    ELSE "nil"

\* The switch selecting the action; "nil" when no case matches.
Decide(st) ==
    IF IsDeleting(st.peer) /\ hasPvcDeletionFinalizer(st.peer) THEN "Cleanup"
    ELSE IF IsDeleting(st.peer) THEN "Noop"
    ELSE IF ~st.pvc.present THEN "CreatePVC"
    ELSE IF ~st.replicaSet.present THEN "CreateRS"
    ELSE "nil"

\* SelectAction without the validation of the declaration.
SelectAction_NoValidate(st) ==
    IF ~st.peer.present THEN "return" ELSE Decide(st)

\* SelectAction without the early return for a peer that was not found.
SelectAction_NoPeerCheck(st) ==
    IF st.peer.present /\ ~ValidateCreate(st.peer) THEN "return" ELSE Decide(st)

\* The early returns before the switch, then the switch.
SelectAction(st) ==
    IF ~st.peer.present THEN "return"
    ELSE IF ~ValidateCreate(st.peer) THEN "return"
    ELSE Decide(st)

Select(id) ==
    /\ pc[id] = "collected"
    /\ LET a == SelectAction(snap[id]) IN
       /\ action' = [action EXCEPT ![id] = a]
       /\ IF a \in {"return", "nil"}
          THEN /\ pc' = [pc EXCEPT ![id] = "done"]
               /\ result' = [result EXCEPT ![id] = "nil"]
          ELSE /\ pc' = [pc EXCEPT ![id] = "exec"]
               /\ result' = result
    /\ UNCHANGED <<aside, store, snap, rd, got, muts, trail, tainted>>

----------------------------------------------------------------------------
\* Actions

\* NoopAction.Execute
ExecNoop(id) ==
    /\ pc[id] = "exec" /\ action[id] = "Noop"
    /\ pc' = [pc EXCEPT ![id] = "done"]
    /\ result' = [result EXCEPT ![id] = "nil"]
    /\ UNCHANGED <<aside, store, snap, rd, action, got, muts, trail, tainted>>

\* CreateOutcome that surfaces "already exists" like any other failure.
CreateOutcome_Strict(err) == IF err = "nil" THEN "nil" ELSE "err"

\* CreateRuntimeObject.Execute: the error it returns for the error of Create.
CreateOutcome(err) == IF err \in {"nil", "exists"} THEN "nil" ELSE "err"

\* expectedPvcNamespacedName that names the claim after something every
\* peer of the cluster shares.
expectedPvcNamespacedName_Shared(id) == CHOOSE k \in DOMAIN pvc : TRUE

\* The key of the claim built by pvcForPeer for the peer read under id: the
\* peer's own name and namespace.
expectedPvcNamespacedName(id) == id

ExecCreatePVC(id) ==
    /\ pc[id] = "exec" /\ action[id] = "CreatePVC"
    /\ \E fail \in BOOLEAN :
          LET key == expectedPvcNamespacedName(id)
              err == StoreCreate(pvc[key], fail) IN
          /\ pvc' = IF err = "nil"
                    THEN [pvc EXCEPT ![key] = pvcForPeer(snap[id].peer)]
                    ELSE pvc
          /\ muts' = [muts EXCEPT ![id] = Append(@, Mut("create", "pvc", err))]
          /\ result' = [result EXCEPT ![id] = CreateOutcome(err)]
    /\ pc' = [pc EXCEPT ![id] = "done"]
    /\ UNCHANGED <<aside, peer, rs, snap, rd, action, got, trail, tainted>>

ExecCreateRS(id) ==
    /\ pc[id] = "exec" /\ action[id] = "CreateRS"
    /\ \E fail \in BOOLEAN :
          LET err == StoreCreate(rs[id], fail) IN
          /\ rs' = IF err = "nil"
                   THEN [rs EXCEPT ![id] = defineReplicaSet(snap[id].peer)]
                   ELSE rs
          /\ muts' = [muts EXCEPT ![id] = Append(@, Mut("create", "rs", err))]
          /\ result' = [result EXCEPT ![id] = CreateOutcome(err)]
    /\ pc' = [pc EXCEPT ![id] = "done"]
    /\ UNCHANGED <<aside, peer, pvc, snap, rd, action, got, trail, tainted>>

\* PVCDeleterBranch that never deletes the claim it found.
PVCDeleterBranch_NoDelete(err, actual) ==
    IF err \in {"nil", "notfound"} THEN "patch" ELSE "fail"

\* PVCDeleterBranch that deletes the claim again when it is already marked.
PVCDeleterBranch_Redelete(err, actual) ==
    IF err = "nil" THEN "delete"
    ELSE IF err = "notfound" THEN "patch"
    ELSE "fail"

\* PVCDeleterBranch that ends the pass when the claim is already marked for
\* deletion, to wait for its release.
PVCDeleterBranch_Wait(err, actual) ==
    IF err = "nil"
    THEN IF ~IsDeleting(actual) THEN "delete" ELSE "done"
    ELSE IF err = "notfound" THEN "patch"
    ELSE "fail"

\* PVCDeleter.Execute: what follows its read of the claim.
PVCDeleterBranch(err, actual) ==
    IF err = "nil"
    THEN IF ~IsDeleting(actual) THEN "delete" ELSE "patch"
    ELSE IF err = "notfound" THEN "patch"
    ELSE "fail"

\* What Execute recorded of its read.
Seen(err, actual) ==
    IF err = "nil" THEN (IF IsDeleting(actual) THEN "deleting" ELSE "present")
    ELSE IF err = "notfound" THEN "absent" ELSE "err"

ExecGetPVC(id) ==
    /\ pc[id] = "exec" /\ action[id] = "Cleanup"
    /\ \E fail \in BOOLEAN :
          LET key == expectedPvcNamespacedName(id)
              err == StoreGet(pvc[key], fail)
              br == PVCDeleterBranch(err, pvc[key]) IN
          /\ got' = [got EXCEPT ![id] = Seen(err, pvc[key])]
          /\ IF br = "fail"
             THEN /\ pc' = [pc EXCEPT ![id] = "done"]
                  /\ result' = [result EXCEPT ![id] = "err"]
             ELSE /\ pc' = [pc EXCEPT ![id] = br]
                  /\ result' = result
    /\ UNCHANGED <<aside, store, snap, rd, action, muts, trail, tainted>>

\* AfterDelete that falls through to the finalizer removal on success.
AfterDelete_FallThrough(err) == IF err = "nil" THEN "patch" ELSE "done"

\* Where Execute goes after Client.Delete returned err.
AfterDelete(err) == "done"

ExecDelete(id) ==
    /\ pc[id] = "delete"
    /\ \E fail \in BOOLEAN :
          LET key == expectedPvcNamespacedName(id)
              err == StoreDelete(pvc[key], fail) IN
          /\ pvc' = IF err = "nil"
                    THEN [pvc EXCEPT ![key].deleting = TRUE]
                    ELSE pvc
          /\ muts' = [muts EXCEPT ![id] = Append(@, Mut("delete", "pvc", err))]
          /\ pc' = [pc EXCEPT ![id] = AfterDelete(err)]
          /\ result' = IF AfterDelete(err) = "done"
                       THEN [result EXCEPT ![id] =
                                IF err = "nil" THEN "nil" ELSE "err"]
                       ELSE result
    /\ UNCHANGED <<aside, peer, rs, snap, rd, action, got, trail, tainted>>

ExecPatch(id) ==
    /\ pc[id] = "patch"
    /\ \E fail \in BOOLEAN :
          LET err == StorePatch(peer[id], fail) IN
          /\ peer' = IF err = "nil"
                     THEN [peer EXCEPT ![id].finalizer = FALSE]
                     ELSE peer
          /\ muts' = [muts EXCEPT ![id] = Append(@, Mut("patch", "peer", err))]
          /\ result' = [result EXCEPT ![id] =
                           IF err = "nil" THEN "nil" ELSE "err"]
    /\ pc' = [pc EXCEPT ![id] = "done"]
    /\ UNCHANGED <<aside, pvc, rs, snap, rd, action, got, trail, tainted>>

\* Reconcile returns to the dispatcher.
Return(id) ==
    /\ pc[id] = "done"
    /\ pc' = [pc EXCEPT ![id] = "idle"]
    /\ snap' = [snap EXCEPT ![id] = NoState]
    /\ rd' = [rd EXCEPT ![id] = <<>>]
    /\ action' = [action EXCEPT ![id] = "none"]
    /\ got' = [got EXCEPT ![id] = "none"]
    /\ muts' = [muts EXCEPT ![id] = <<>>]
    /\ result' = [result EXCEPT ![id] = "none"]
    /\ trail' = [trail EXCEPT ![id] =
                    IF tainted[id] THEN <<>>
                    ELSE IF result[id] = "nil" THEN Extend(@, Effect(muts[id]))
                    ELSE @]
    /\ tainted' = [tainted EXCEPT ![id] = FALSE]
    /\ UNCHANGED <<aside, store>>

----------------------------------------------------------------------------
\* The control plane and the other actors

\* A user creates the peer declaration.
UserCreatePeer(id) ==
    /\ ~peer[id].present
    /\ \E v \in BOOLEAN, f \in BOOLEAN, s \in Specs :
          peer' = [peer EXCEPT ![id] =
                      [present |-> TRUE, deleting |-> FALSE, finalizer |-> f,
                       valid |-> v, spec |-> s]]
    /\ Touch(id)
    /\ UNCHANGED <<aside, pvc, rs, local>>

\* A user deletes the peer: the store marks it for deletion.
UserDeletePeer(id) ==
    /\ peer[id].present /\ ~peer[id].deleting
    /\ peer' = [peer EXCEPT ![id].deleting = TRUE]
    /\ Touch(id)
    /\ UNCHANGED <<aside, pvc, rs, local>>

\* The store removes a peer marked for deletion that has no finalizer left.
GCPeer(id) ==
    /\ peer[id].present /\ peer[id].deleting /\ ~peer[id].finalizer
    /\ peer' = [peer EXCEPT ![id] = NoPeer]
    /\ Touch(id)
    /\ UNCHANGED <<aside, pvc, rs, local>>

\* The garbage collector removes the workload whose owner is gone.
GCReplicaSet(id) ==
    /\ rs[id].present /\ ~peer[id].present
    /\ rs' = [rs EXCEPT ![id] = NoRS]
    /\ Touch(id)
    /\ UNCHANGED <<aside, peer, pvc, local>>

\* A claim marked for deletion is released once no pod uses it.
GCPVC(id) ==
    /\ pvc[id].present /\ pvc[id].deleting /\ ~rs[id].present
    /\ pvc' = [pvc EXCEPT ![id] = NoPVC]
    /\ Touch(id)
    /\ UNCHANGED <<aside, peer, rs, local>>

\* Another actor creates the claim.
ExternalCreatePVC(id) ==
    /\ ~pvc[id].present
    /\ \E s \in 0..NumSpecs :
          pvc' = [pvc EXCEPT ![id] =
                     [present |-> TRUE, deleting |-> FALSE, spec |-> s]]
    /\ Touch(id)
    /\ UNCHANGED <<aside, peer, rs, local>>

\* Another actor creates the workload.
ExternalCreateRS(id) ==
    /\ ~rs[id].present
    /\ \E s \in 0..NumSpecs :
          rs' = [rs EXCEPT ![id] = [present |-> TRUE, spec |-> s]]
    /\ Touch(id)
    /\ UNCHANGED <<aside, peer, pvc, local>>

----------------------------------------------------------------------------
Init ==
    /\ peer = [id \in Ids |-> NoPeer]
    /\ pvc = [id \in Ids |-> NoPVC]
    /\ rs = [id \in Ids |-> NoRS]
    /\ pc = [id \in Ids |-> "idle"]
    /\ snap = [id \in Ids |-> NoState]
    /\ rd = [id \in Ids |-> <<>>]
    /\ action = [id \in Ids |-> "none"]
    /\ got = [id \in Ids |-> "none"]
    /\ muts = [id \in Ids |-> <<>>]
    /\ result = [id \in Ids |-> "none"]
    /\ trail = [id \in Ids |-> <<>>]
    /\ tainted = [id \in Ids |-> FALSE]
    /\ call = NoCall
    /\ start = NoStart

Pass(id) ==
    \/ GetPeer(id)
    \/ GetPVC(id)
    \/ GetReplicaSet(id)
    \/ Select(id)
    \/ ExecNoop(id)
    \/ ExecCreatePVC(id)
    \/ ExecCreateRS(id)
    \/ ExecGetPVC(id)
    \/ ExecDelete(id)
    \/ ExecPatch(id)
    \/ Return(id)

ControlPlane(id) ==
    \/ UserCreatePeer(id)
    \/ UserDeletePeer(id)
    \/ GCPeer(id)
    \/ GCReplicaSet(id)
    \/ GCPVC(id)

External(id) ==
    \/ ExternalCreatePVC(id)
    \/ ExternalCreateRS(id)

Next == \E id \in Ids : Pass(id) \/ ControlPlane(id) \/ External(id)

Spec == Init /\ [][Next]_vars

\* Passes interleaved with the control plane alone: no other actor writes
\* claims or workloads.
NextGC == \E id \in Ids : Pass(id) \/ ControlPlane(id)

SpecGC == Init /\ [][NextGC]_vars

TypeOK ==
    /\ peer \in [Ids -> PeerObjects]
    /\ pvc \in [Ids -> PVCObjects]
    /\ rs \in [Ids -> RSObjects]
    /\ \A id \in Ids :
          /\ pc[id] \in {"idle", "gotPeer", "gotPVC", "collected", "exec",
                         "delete", "patch", "done"}
          /\ result[id] \in {"none", "nil", "err"}
          /\ Len(trail[id]) <= MaxTrail

----------------------------------------------------------------------------
\* Passes under fair scheduling

\* No store call of the pass of id ended in a transient error.
NoFailure(id) ==
    /\ \A i \in 1..Len(rd[id]) : rd[id][i] # "err"
    /\ got[id] # "err"
    /\ \A i \in 1..Len(muts[id]) : muts[id][i].res # "err"

\* From some point on no store call fails.
StoreCallsSucceed == <>[](\A id \in Ids : NoFailure(id))

\* The dispatcher keeps running passes for every identity, every pass runs
\* to its end, and the control plane's garbage collection is not held back
\* forever.
Fairness ==
    \A id \in Ids :
       /\ WF_vars(Pass(id))
       /\ WF_vars(GCPeer(id))
       /\ WF_vars(GCReplicaSet(id))
       /\ WF_vars(GCPVC(id))

\* The controller together with the control plane: nobody else writes.
SpecLive == SpecGC /\ Fairness

\* The same fairness with users and external writers present.
SpecFair == Spec /\ Fairness

----------------------------------------------------------------------------
\* Two identities reconciled in parallel, one pass each, from any store

ParIds == {"one", "two"}

StartPeers == {NoPeer} \cup {p \in PeerObjects : p.present /\ p.spec = 1}

\* A claim or workload in the store was once built from a declaration.
StartPVCs ==
    {NoPVC} \cup {[pvcForPeer(p) EXCEPT !.deleting = d] :
                     p \in StartPeers \ {NoPeer}, d \in BOOLEAN}

StartRS == {NoRS} \cup {defineReplicaSet(p) : p \in StartPeers \ {NoPeer}}

InitPar ==
    /\ peer \in [ParIds -> StartPeers]
    /\ pvc \in [ParIds -> StartPVCs]
    /\ rs \in [ParIds -> StartRS]
    /\ pc = [id \in ParIds |-> "idle"]
    /\ snap = [id \in ParIds |-> NoState]
    /\ rd = [id \in ParIds |-> <<>>]
    /\ action = [id \in ParIds |-> "none"]
    /\ got = [id \in ParIds |-> "none"]
    /\ muts = [id \in ParIds |-> <<>>]
    /\ result = [id \in ParIds |-> "none"]
    /\ trail = [id \in ParIds |-> <<>>]
    /\ tainted = [id \in ParIds |-> FALSE]
    /\ call = NoCall
    /\ start = [peer |-> peer, pvc |-> pvc, rs |-> rs]

\* A step of the one pass of id, up to its return.
PassStep(id) ==
    \/ GetPeer(id)
    \/ GetPVC(id)
    \/ GetReplicaSet(id)
    \/ Select(id)
    \/ ExecNoop(id)
    \/ ExecCreatePVC(id)
    \/ ExecCreateRS(id)
    \/ ExecGetPVC(id)
    \/ ExecDelete(id)
    \/ ExecPatch(id)

NextPar == \E id \in ParIds : PassStep(id)

SpecPar == InitPar /\ [][NextPar]_vars

\* A whole pass for id run on the store S with nothing in between; ok tells
\* whether its store calls succeeded.  A failed call ends the pass before
\* its one mutation.
RunPass(id, S, ok) ==
    LET key == expectedPvcNamespacedName(id)
        st == [peer |-> S.peer[id], pvc |-> S.pvc[id], replicaSet |-> S.rs[id]]
        a == SelectAction(st)
    IN  IF ~ok THEN S
        ELSE IF a = "CreatePVC"
        THEN IF StoreCreate(S.pvc[key], FALSE) = "nil"
             THEN [S EXCEPT !.pvc[key] = pvcForPeer(st.peer)]
             ELSE S
        ELSE IF a = "CreateRS"
        THEN IF StoreCreate(S.rs[id], FALSE) = "nil"
             THEN [S EXCEPT !.rs[id] = defineReplicaSet(st.peer)]
             ELSE S
        ELSE IF a = "Cleanup"
        THEN LET br == PVCDeleterBranch(StoreGet(S.pvc[key], FALSE), S.pvc[key])
             IN  IF br = "delete" THEN [S EXCEPT !.pvc[key].deleting = TRUE]
                 ELSE IF br = "patch" THEN [S EXCEPT !.peer[id].finalizer = FALSE]
                 ELSE S
        ELSE S

----------------------------------------------------------------------------
\* The desired-state builder and the event router as functions of their
\* input.  One call at a time is examined: call holds the function, its
\* argument and what it returned.

Names == {"one", "two"}
Namespaces == {"default", "other"}
ClusterNames == {"magic", "one"}

peerLabel == "etcd.improbable.io/peer-name"
clusterLabel == "etcd.improbable.io/cluster-name"
appLabel == "app.kubernetes.io/name"
appName == "etcd"

\* Every map from some of the keys in K to values in V.
Maps(K, V) == UNION {[D -> V] : D \in SUBSET K}

\* The metadata of the objects an event can be about.
EventObjects ==
    [name : Names, namespace : Namespaces,
     labels : Maps({appLabel, clusterLabel, peerLabel}, Names)]

\* The declarations the claim is built from.
PeerDecls == [name : Names, namespace : Namespaces, clusterName : ClusterNames]

\* The ObjectMeta of the claim pvcForPeer builds.
pvcForPeerMeta(p) ==
    [name |-> p.name, namespace |-> p.namespace,
     labels |-> (appLabel :> appName) @@ (clusterLabel :> p.clusterName)
                   @@ (peerLabel :> p.name)]

\* Map that enqueues the object's own name, as EnqueueRequestForObject does.
Map_ObjectName(o) == <<[name |-> o.name, namespace |-> o.namespace]>>

\* pvcMapper.Map: the reconcile requests for an event on object o.
Map(o) ==
    IF peerLabel \in DOMAIN o.labels
    THEN <<[name |-> o.labels[peerLabel], namespace |-> o.namespace]>>
    ELSE <<>>

\* CPU limits are examined from -MaxMilli to MaxMilli millicores.
MaxMilli == 3000

\* resource.Quantity.Sign, on a quantity in millicores.
Sign(q) == IF q < 0 THEN -1 ELSE IF q = 0 THEN 0 ELSE 1

\* resource.Quantity.MilliValue, on a quantity in millicores.
MilliValue(q) == q

\* goMaxProcs without the lower limit of one thread.
goMaxProcs_NoMinimum(cpuLimit) ==
    IF Sign(cpuLimit) \in {-1, 0} THEN <<>>
    ELSE <<MilliValue(cpuLimit) \div 1000>>

\* goMaxProcs: <<>> for the nil pointer, <<n>> for a pointer to n.
goMaxProcs(cpuLimit) ==
    IF Sign(cpuLimit) \in {-1, 0} THEN <<>>
    ELSE LET n == MilliValue(cpuLimit) \div 1000
         IN IF n < 1 THEN <<1>> ELSE <<n>>

\* The pod templates of a declaration: <<>> for nil; resources <<>> for nil;
\* cpu <<>> when the limits name no CPU.
PodTemplates ==
    {<<>>} \cup {<<[resources |-> <<>>]>>}
           \cup {<<[resources |-> <<[cpu |-> <<>>]>>]>>}
           \cup {<<[resources |-> <<[cpu |-> <<m>>]>>]>> : m \in -MaxMilli..MaxMilli}

\* ResourceList.Cpu: the zero quantity when the limits name no CPU.
Cpu(limits) == IF limits.cpu = <<>> THEN 0 ELSE limits.cpu[1]

\* defineReplicaSet: the number rendered into GOMAXPROCS, <<>> when the
\* variable is not set.
GoMaxProcsEnv(podTemplate) ==
    IF podTemplate # <<>>
    THEN IF podTemplate[1].resources # <<>>
         THEN goMaxProcs(Cpu(podTemplate[1].resources[1]))
         ELSE <<>>
    ELSE <<>>

\* Static member lists are examined up to MaxMembers members.
MaxMembers == 3

etcdScheme == "http"
etcdPeerPort == 2380

Hosts == {"one.magic.default.svc", "two.magic.default.svc"}

\* etcdv1alpha1.InitialClusterMember
Members == [name : Names, host : Hosts]

\* StaticBootstrap.InitialCluster
MemberLists == UNION {[1..n -> Members] : n \in 0..MaxMembers}

\* Text is modelled as the sequence of the pieces it is written from.

\* initialMemberURL
initialMemberURL(member) ==
    [scheme |-> etcdScheme,
     host |-> <<member.host, ":", ToString(etcdPeerPort)>>]

\* url.URL.String, for a URL of a scheme and a host.
URLString(u) == <<u.scheme, "://">> \o u.host

\* strings.Join
RECURSIVE Join(_, _)
Join(s, sep) ==
    IF Len(s) = 0 THEN <<>>
    ELSE IF Len(s) = 1 THEN s[1]
    ELSE s[1] \o <<sep>> \o Join(Tail(s), sep)

\* staticBootstrapInitialCluster that appends to the slice it made with the
\* length of the member list.
staticBootstrapInitialCluster_Append(static) ==
    Join([i \in 1..Len(static) |-> <<>>]
            \o [i \in 1..Len(static) |->
                  <<static[i].name, "=">> \o URLString(initialMemberURL(static[i]))],
         ",")

\* staticBootstrapInitialCluster
staticBootstrapInitialCluster(static) ==
    Join([i \in 1..Len(static) |->
            <<static[i].name, "=">> \o URLString(initialMemberURL(static[i]))],
         ",")

\* The prefix of the annotation names the operator keeps for itself.
reservedPrefix == "etcd.improbable.io/"

\* Annotation names, each written as <<prefix, rest>>.
AnnotationNames ==
    {<<reservedPrefix, "restore">>, <<reservedPrefix, "scrape">>,
     <<"prometheus.io/", "scrape">>, <<"", "restore">>}

AnnotationValues == {"true", "false"}

\* IsInvalidUserProvidedAnnotationName (api package): the name lies in the
\* operator's reserved namespace.
IsInvalidUserProvidedAnnotationName(name) == name[1] = reservedPrefix

\* The pod templates of a declaration: <<>> for nil; metadata <<>> for nil.
AnnotatedPodTemplates ==
    {<<>>} \cup {<<[metadata |-> <<>>]>>}
           \cup {<<[metadata |-> <<[annotations |-> a]>>]>> :
                    a \in Maps(AnnotationNames, AnnotationValues)}

\* The orders in which range can visit the keys in S.
Orders(S) ==
    {o \in [1..Cardinality(S) -> S] :
        \A i, j \in 1..Cardinality(S) : o[i] = o[j] => i = j}

\* The body of the loop with the test of the name left out.
StampAnnotation_NoFilter(acc, name, value) ==
    IF name \notin DOMAIN acc THEN acc @@ (name :> value) ELSE acc

\* defineReplicaSet: the body of the loop over the user's annotations, on
\* the template's annotations acc.
StampAnnotation(acc, name, value) ==
    IF ~IsInvalidUserProvidedAnnotationName(name)
    THEN IF name \notin DOMAIN acc THEN acc @@ (name :> value) ELSE acc
    ELSE acc

\* The loop, visiting the names in the given order, from the empty map.
RECURSIVE StampAll(_, _, _)
StampAll(acc, annotations, order) ==
    IF order = <<>> THEN acc
    ELSE StampAll(StampAnnotation(acc, order[1], annotations[order[1]]),
                  annotations, Tail(order))

\* The annotations Metadata carries.
UserAnnotations(podTemplate) == podTemplate[1].metadata[1].annotations

\* defineReplicaSet: the annotations of the pod template.
TemplateAnnotations(podTemplate, order) ==
    IF podTemplate # <<>>
    THEN IF podTemplate[1].metadata # <<>>
         THEN StampAll(<<>>, UserAnnotations(podTemplate), order)
         ELSE <<>>
    ELSE <<>>

Called(fn, arg, out) ==
    /\ call' = [fn |-> fn, arg |-> arg, out |-> out]
    /\ UNCHANGED <<store, local, trail, tainted, start>>

\* An event on a claim reaches the mapper.
CallMap ==
    /\ call = NoCall
    /\ \E o \in EventObjects : Called("Map", o, Map(o))

\* An event on the claim built for a peer reaches the mapper.
CallMapBuilt ==
    /\ call = NoCall
    /\ \E p \in PeerDecls : Called("MapBuilt", p, Map(pvcForPeerMeta(p)))

\* The workload is built for a declaration with pod template t.
CallGoMaxProcs ==
    /\ call = NoCall
    /\ \E t \in PodTemplates : Called("GOMAXPROCS", t, GoMaxProcsEnv(t))

\* The bootstrap environment is rendered for a static member list.
CallInitialCluster ==
    /\ call = NoCall
    /\ \E l \in MemberLists :
          Called("InitialCluster", l, staticBootstrapInitialCluster(l))

\* The workload is built for a declaration with pod template t; range
\* visits the annotations in some order.
CallAnnotations ==
    /\ call = NoCall
    /\ \E t \in AnnotatedPodTemplates :
          \E order \in IF t # <<>> /\ t[1].metadata # <<>>
                       THEN Orders(DOMAIN UserAnnotations(t)) ELSE {<<>>} :
             Called("Annotations", t, TemplateAnnotations(t, order))

\* The examined call is forgotten.
Forget ==
    /\ call # NoCall
    /\ call' = NoCall
    /\ UNCHANGED <<store, local, trail, tainted, start>>

NextBuilder ==
    \/ CallMap
    \/ CallMapBuilt
    \/ CallGoMaxProcs
    \/ CallInitialCluster
    \/ CallAnnotations
    \/ Forget

SpecBuilder == Init /\ [][NextBuilder]_vars

----------------------------------------------------------------------------
\* Properties

\* The pass of id has run its action to the end.
Done(id) == pc[id] = "done"

\* The pass of id issued a call op on an object of kind kind.
Issued(id, op, kind) ==
    \E i \in 1..Len(muts[id]) : muts[id][i].op = op /\ muts[id][i].kind = kind

\* A step that removes the cleanup finalizer from the peer of id.
FinalizerRemoved(id) ==
    /\ peer[id].present /\ peer[id].finalizer
    /\ peer'[id].present /\ ~peer'[id].finalizer

\* C1 -- Finalizer safety: with passes interleaved with the control plane's
\* garbage collection, every step that removes the cleanup finalizer from a
\* peer is taken in a store state where the peer's claim is absent or is
\* itself marked for deletion.
C1_FinalizerSafety ==
    [][\A id \in Ids :
          FinalizerRemoved(id) => (~pvc[id].present \/ pvc[id].deleting)]_vars

\* A pass has removed the finalizer.
C1_Witness ==
    \E id \in Ids :
       /\ Done(id) /\ Effect(muts[id]) = "patch"
       /\ peer[id].present /\ ~peer[id].finalizer

\* C2 as stated -- a Cleanup that finds the claim present and already marked
\* for deletion makes no store mutation, and the finalizer is removed only
\* in a pass whose read found the claim absent.
C2_WaitOnDeletingClaim ==
    \A id \in Ids :
       Done(id) =>
          /\ got[id] = "deleting" => Effect(muts[id]) = "none"
          /\ Effect(muts[id]) = "patch" => got[id] = "absent"

\* C2 as amended -- a Cleanup that finds the claim present and already
\* marked for deletion issues no delete of the claim and goes on, in the same
\* pass, to the removal of the finalizer, which is the only store call it
\* issues; the removal of the finalizer is issued only in a pass whose own
\* read found the claim absent or already marked for deletion.
C2_ReleaseOnDeletingClaim ==
    \A id \in Ids :
       /\ got[id] = "deleting" => ~Issued(id, "delete", "pvc")
       /\ (Done(id) /\ got[id] = "deleting") =>
             (Len(muts[id]) = 1 /\ muts[id][1].op = "patch")
       /\ Issued(id, "patch", "peer") => got[id] \in {"absent", "deleting"}

\* A Cleanup found the claim marked for deletion and removed the finalizer.
C2_Witness ==
    \E id \in Ids :
       /\ Done(id) /\ got[id] = "deleting" /\ Effect(muts[id]) = "patch"
       /\ pvc[id].present /\ pvc[id].deleting

\* C3 -- Deletion takes precedence over provisioning: when the snapshot's
\* peer carries a deletion marker, the selected action is never a Create,
\* whatever the claim and the workload; it is Cleanup when the finalizer is
\* present and No-op, which issues no store call, when it is absent.
C3_DeletionPrecedence ==
    \A id \in Ids :
       (action[id] \notin {"none", "return"} /\ snap[id].peer.deleting) =>
          /\ action[id] \notin {"CreatePVC", "CreateRS"}
          /\ action[id] = IF snap[id].peer.finalizer THEN "Cleanup" ELSE "Noop"
          /\ action[id] = "Noop" => muts[id] = <<>>

\* Cleanup was selected for a deleted peer whose claim and workload are
\* both absent from the snapshot.
C3_Witness ==
    \E id \in Ids :
       /\ action[id] = "Cleanup" /\ snap[id].peer.deleting
       /\ ~snap[id].pvc.present /\ ~snap[id].replicaSet.present

\* C4 -- Claim deletion and finalizer removal happen in separate passes: a
\* Cleanup that finds the claim present and not marked for deletion issues
\* the delete of the claim and nothing else, and ends with the finalizer
\* still on the peer.
C4_DeleteThenReturn ==
    \A id \in Ids :
       got[id] = "present" =>
          /\ ~Issued(id, "patch", "peer")
          /\ Done(id) =>
                /\ muts[id] = <<Mut("delete", "pvc", muts[id][1].res)>>
                /\ peer[id].present /\ peer[id].finalizer /\ peer[id].deleting

\* A Cleanup deleted the claim and returned with the finalizer in place.
C4_Witness ==
    \E id \in Ids :
       /\ Done(id) /\ got[id] = "present" /\ Effect(muts[id]) = "delete-pvc"
       /\ pvc[id].deleting /\ peer[id].finalizer

\* The peer of id is a valid declaration that is not marked for deletion.
Provisioning(id) == peer[id].present /\ peer[id].valid /\ ~peer[id].deleting

\* C5 -- Provisioning order: for a valid peer with no deletion marker, the
\* successful passes run back to back with no other change of the store
\* create the claim only as the first of them, the workload only after no
\* pass or after the pass that created the claim, and nothing once a pass
\* has done nothing; a pass does nothing only when claim and workload are
\* both there; and no pass creates a workload when its snapshot shows the
\* claim absent.
C5_ProvisioningOrder ==
    \A id \in Ids :
       /\ Provisioning(id) =>
             \A i \in 1..Len(trail[id]) :
                /\ trail[id][i] \in {"create-pvc", "create-rs", "none"}
                /\ trail[id][i] = "create-pvc" => i = 1
                /\ trail[id][i] = "create-rs" =>
                      (i = 1 \/ (i = 2 /\ trail[id][1] = "create-pvc"))
                /\ trail[id][i] = "none" =>
                      /\ pvc[id].present /\ rs[id].present
                      /\ \A j \in i..Len(trail[id]) : trail[id][j] = "none"
       /\ Issued(id, "create", "rs") => snap[id].pvc.present

\* Three passes in a row: the claim, the workload, nothing.
C5_Witness ==
    \E id \in Ids :
       /\ Provisioning(id)
       /\ trail[id] = <<"create-pvc", "create-rs", "none">>
       /\ pvc[id] = pvcForPeer(peer[id]) /\ rs[id] = defineReplicaSet(peer[id])

\* C6 as stated -- Idempotence: of two passes run back to back with no
\* other change of the store, the second makes no store mutation.
C6_SecondPassNoop ==
    \A id \in Ids : Len(trail[id]) >= 2 => trail[id][2] = "none"

\* C6 as amended -- passes run back to back with no other change of the
\* store reach a fixed point after at most two mutating passes: the third
\* and every later pass makes no store mutation, and a pass that follows a
\* pass that made none makes none.
C6_FixedPointInTwo ==
    \A id \in Ids :
       \A i \in 1..Len(trail[id]) :
          /\ i >= 3 => trail[id][i] = "none"
          /\ (i >= 2 /\ trail[id][i - 1] = "none") => trail[id][i] = "none"

\* Three passes in a row on a deleted peer: claim deleted, finalizer
\* removed, nothing.
C6_Witness ==
    \E id \in Ids :
       /\ Len(trail[id]) >= 3
       /\ trail[id][1] = "delete-pvc" /\ trail[id][2] = "patch"
       /\ trail[id][3] = "none"

\* C7 -- Every pass issues at most one mutating store call (one create, one
\* delete or one finalizer-removing patch); a Cleanup never issues both the
\* delete of the claim and the patch of the peer.
C7_OneMutationPerPass ==
    \A id \in Ids :
       /\ Len(muts[id]) <= 1
       /\ ~(Issued(id, "delete", "pvc") /\ Issued(id, "patch", "peer"))

\* A pass failed in its one mutating call and left the store as it was.
C7_Witness ==
    \E id \in Ids :
       /\ Done(id) /\ result[id] = "err"
       /\ Len(muts[id]) = 1 /\ muts[id][1].op = "delete"
       /\ Effect(muts[id]) = "none" /\ ~pvc[id].deleting

\* C8 -- A pass whose snapshot holds a peer that fails validation issues no
\* store call and ends with no error, whatever else the snapshot holds.
C8_InvalidPeerNoAction ==
    \A id \in Ids :
       (action[id] # "none" /\ snap[id].peer.present /\ ~snap[id].peer.valid) =>
          /\ action[id] = "return"
          /\ Done(id) /\ result[id] = "nil" /\ muts[id] = <<>>

\* A pass ended on an invalid peer marked for deletion that carries the
\* finalizer, with its claim in the snapshot.
C8_Witness ==
    \E id \in Ids :
       /\ Done(id) /\ result[id] = "nil"
       /\ snap[id].peer.present /\ ~snap[id].peer.valid
       /\ snap[id].peer.deleting /\ snap[id].peer.finalizer
       /\ snap[id].pvc.present

\* The fields of State the three reads fill, in the order of the reads.
Fields == <<"peer", "pvc", "replicaSet">>

\* The pass of id ended in the collection: no action was selected.
Aborted(id) == Done(id) /\ action[id] = "none"

\* C9 -- State collection: a read that returns not-found records the object
\* as absent and the collection goes on; a read that fails otherwise is the
\* last read of the pass, which ends reporting an error with no action
\* selected and no store call issued; and a pass ends in the collection for
\* no other reason.
C9_CollectionErrors ==
    \A id \in Ids :
       /\ \A i \in 1..Len(rd[id]) :
             /\ rd[id][i] = "notfound" =>
                   /\ ~(Aborted(id) /\ i = Len(rd[id]))
                   /\ ~Aborted(id) => ~snap[id][Fields[i]].present
             /\ (rd[id][i] = "nil" /\ ~Aborted(id)) => snap[id][Fields[i]].present
             /\ rd[id][i] = "err" => (i = Len(rd[id]) /\ Aborted(id))
       /\ Aborted(id) =>
             /\ result[id] = "err" /\ muts[id] = <<>>
             /\ rd[id] # <<>> /\ rd[id][Len(rd[id])] = "err"

\* The peer was not found and recorded as absent, the collection went on,
\* and the failure of the third read ended the pass.
C9_Witness ==
    \E id \in Ids :
       /\ Aborted(id) /\ result[id] = "err"
       /\ rd[id] = <<"notfound", "nil", "err">>

\* A Create step of the pass of id.
CreateStep(id) ==
    /\ pc[id] = "exec" /\ action[id] \in {"CreatePVC", "CreateRS"}
    /\ pc'[id] = "done"

\* C10 -- Create is create-if-absent: a Create that finds the object already
\* there (created after the snapshot was taken) ends the pass with no error
\* and leaves the store as it is; a Create that fails otherwise ends the
\* pass with an error; a Create that succeeds stores the desired object.
C10_CreateIfAbsent ==
    [][\A id \in Ids :
          CreateStep(id) =>
             LET res == muts'[id][1].res IN
             /\ res = "exists" => (result'[id] = "nil" /\ store' = store)
             /\ res = "err" => (result'[id] = "err" /\ store' = store)
             /\ res = "nil" => result'[id] = "nil"]_vars

\* A Create lost the race: the claim another actor created after the
\* snapshot is still there, unchanged, and the pass ended with no error.
C10_Witness ==
    \E id \in Ids :
       /\ Done(id) /\ result[id] = "nil"
       /\ muts[id] = <<Mut("create", "pvc", "exists")>>
       /\ ~snap[id].pvc.present
       /\ pvc[id].present /\ pvc[id] # pvcForPeer(snap[id].peer)

\* C11 -- No drift correction: a pass whose snapshot holds a peer without
\* deletion marker, its claim and its workload issues no store call and ends
\* with no error, also when the claim or the workload differs from the one
\* derived from the declaration.
C11_NoDriftCorrection ==
    \A id \in Ids :
       ( /\ action[id] # "none"
         /\ snap[id].peer.present /\ ~snap[id].peer.deleting
         /\ snap[id].pvc.present /\ snap[id].replicaSet.present ) =>
          /\ action[id] \in {"nil", "return"}
          /\ Done(id) /\ result[id] = "nil" /\ muts[id] = <<>>

\* A pass ended on a valid peer whose claim and workload both differ from
\* the desired ones, and the store still holds them as they were.
C11_Witness ==
    \E id \in Ids :
       /\ Done(id) /\ action[id] = "nil"
       /\ snap[id].pvc.present /\ snap[id].pvc # pvcForPeer(snap[id].peer)
       /\ snap[id].replicaSet.present
       /\ snap[id].replicaSet # defineReplicaSet(snap[id].peer)
       /\ pvc[id] = snap[id].pvc /\ rs[id] = snap[id].replicaSet

\* C12 -- A pass whose snapshot holds no peer issues no store call and ends
\* with no error, also when a claim or a workload of the same identity is in
\* the snapshot.
C12_AbsentPeerNoAction ==
    \A id \in Ids :
       (action[id] # "none" /\ ~snap[id].peer.present) =>
          /\ action[id] = "return"
          /\ Done(id) /\ result[id] = "nil" /\ muts[id] = <<>>

\* A pass ended on an absent peer with leftover claim and workload, which
\* are still in the store.
C12_Witness ==
    \E id \in Ids :
       /\ Done(id) /\ action[id] = "return" /\ ~snap[id].peer.present
       /\ snap[id].pvc.present /\ snap[id].replicaSet.present
       /\ pvc[id].present /\ rs[id].present

HasLimit(t) ==
    /\ t # <<>> /\ t[1].resources # <<>>
    /\ t[1].resources[1].cpu # <<>>

\* The CPU limit pod template t sets, in millicores.
LimitOf(t) == t[1].resources[1].cpu[1]

\* C14 -- Concurrency hint: no hint is set when no CPU limit is set or the
\* limit is m <= 0 millicores; for a limit of m > 0 millicores the hint is
\* max(1, floor(m / 1000)): 1 below 1000m, and otherwise the h with
\* 1000 h <= m < 1000 (h + 1).  2500m gives 2, 250m gives 1, 0 gives none.
C14_ConcurrencyHint ==
    call.fn = "GOMAXPROCS" =>
       IF ~HasLimit(call.arg) THEN call.out = <<>>
       ELSE LET m == LimitOf(call.arg) IN
            /\ m <= 0 => call.out = <<>>
            /\ m > 0 =>
                  /\ Len(call.out) = 1
                  /\ call.out[1] >= 1
                  /\ m < 1000 => call.out[1] = 1
                  /\ m >= 1000 => /\ 1000 * call.out[1] <= m
                                  /\ m < 1000 * (call.out[1] + 1)
            /\ m = 2500 => call.out = <<2>>
            /\ m = 250 => call.out = <<1>>

\* The hint for a limit of 250m is 1.
C14_Witness ==
    /\ call.fn = "GOMAXPROCS"
    /\ HasLimit(call.arg) /\ LimitOf(call.arg) = 250
    /\ call.out = <<1>>

\* The text a sequence of pieces stands for.
RECURSIVE Text(_)
Text(pieces) == IF pieces = <<>> THEN "" ELSE pieces[1] \o Text(Tail(pieces))

\* C15 -- Bootstrap rendering: for a list of n members the initial-cluster
\* value is, member by member in the declared order, the pieces
\* name = http :// host : 2380, with one comma between two entries and
\* nothing before the first entry or after the last.
C15_BootstrapRendering ==
    call.fn = "InitialCluster" =>
       LET n == Len(call.arg) IN
       /\ Len(call.out) = IF n = 0 THEN 0 ELSE 8 * n - 1
       /\ \A i \in 1..n :
             /\ SubSeq(call.out, 8 * i - 7, 8 * i - 1) =
                   <<call.arg[i].name, "=", "http", "://",
                     call.arg[i].host, ":", "2380">>
             /\ i < n => call.out[8 * i] = ","

\* The member list of the sample cluster's first two peers and its
\* rendering.
C15_Witness ==
    /\ call.fn = "InitialCluster"
    /\ call.arg = <<[name |-> "one", host |-> "one.magic.default.svc"],
                    [name |-> "two", host |-> "two.magic.default.svc"]>>
    /\ Text(call.out) =
          "one=http://one.magic.default.svc:2380,two=http://two.magic.default.svc:2380"

\* Pod template t carries annotations.
HasAnnotations(t) == t # <<>> /\ t[1].metadata # <<>>

\* C16 -- Annotation filtering: whatever the order the annotations are
\* visited in, the pod template's annotations are exactly the user's
\* annotations whose name lies outside the reserved namespace, each with its
\* value; those under the reserved prefix are left out; without user
\* annotations the template has none.
C16_AnnotationFiltering ==
    call.fn = "Annotations" =>
       IF HasAnnotations(call.arg)
       THEN LET a == call.arg[1].metadata[1].annotations IN
            /\ DOMAIN call.out = {k \in DOMAIN a : k[1] # "etcd.improbable.io/"}
            /\ \A k \in DOMAIN call.out : call.out[k] = a[k]
       ELSE DOMAIN call.out = {}

\* A reserved annotation was dropped and two others were kept.
C16_Witness ==
    /\ call.fn = "Annotations"
    /\ HasAnnotations(call.arg)
    /\ DOMAIN call.arg[1].metadata[1].annotations =
          {<<"etcd.improbable.io/", "restore">>, <<"prometheus.io/", "scrape">>,
           <<"", "restore">>}
    /\ DOMAIN call.out = {<<"prometheus.io/", "scrape">>, <<"", "restore">>}
    /\ call.out[<<"prometheus.io/", "scrape">>] = "true"

\* The peer of id is valid, marked for deletion and carries the finalizer.
AwaitingCleanup(id) ==
    /\ peer[id].present /\ peer[id].valid
    /\ peer[id].deleting /\ peer[id].finalizer

\* C17 -- Deletion makes progress: with passes and garbage collection
\* scheduled fairly and store calls that from some point on succeed, a valid
\* peer that is marked for deletion and carries the cleanup finalizer
\* eventually loses the finalizer and eventually is gone from the store.
C17_DeletionProgress ==
    StoreCallsSucceed =>
       \A id \in Ids :
          /\ AwaitingCleanup(id) ~> ~peer[id].finalizer
          /\ AwaitingCleanup(id) ~> ~peer[id].present

\* The peer is gone while its workload is still there and the claim, marked
\* for deletion, waits for the workload to be torn down.
C17_Witness ==
    \E id \in Ids :
       /\ ~peer[id].present
       /\ rs[id].present
       /\ pvc[id].present /\ pvc[id].deleting

\* C18 -- Convergence: with passes scheduled fairly and store calls that
\* from some point on succeed, if from some point on the peer is a valid
\* declaration that is not marked for deletion, then from some point on the
\* store holds its claim and its workload and no pass issues a mutating
\* store call.
C18_Convergence ==
    StoreCallsSucceed =>
       \A id \in Ids :
          <>[]Provisioning(id) =>
             <>[](pvc[id].present /\ rs[id].present /\ muts[id] = <<>>)

\* A pass found the claim and the workload it had created and did nothing.
C18_Witness ==
    \E id \in Ids :
       /\ Provisioning(id)
       /\ Done(id) /\ action[id] = "nil" /\ muts[id] = <<>>
       /\ pvc[id] = pvcForPeer(peer[id]) /\ rs[id] = defineReplicaSet(peer[id])

\* What a step of the pass of id may do to the claims: create the claim of id
\* where there was none, or delete it when the pass's snapshot shows the peer
\* marked for deletion with the cleanup finalizer.
ClaimFrame(id) ==
    \/ pvc' = pvc
    \/ /\ ~pvc[id].present
       /\ pvc' = [pvc EXCEPT ![id] = pvcForPeer(snap[id].peer)]
    \/ /\ pvc[id].present
       /\ pvc' = [pvc EXCEPT ![id].deleting = TRUE]
       /\ IsDeleting(snap[id].peer) /\ hasPvcDeletionFinalizer(snap[id].peer)

\* ... to the workloads: create the workload of id where there was none.
WorkloadFrame(id) ==
    \/ rs' = rs
    \/ /\ ~rs[id].present
       /\ rs' = [rs EXCEPT ![id] = defineReplicaSet(snap[id].peer)]

\* ... to the peers: take the cleanup finalizer off the peer of id, which is
\* marked for deletion.
PeerFrame(id) ==
    \/ peer' = peer
    \/ /\ peer[id].present /\ IsDeleting(peer[id])
       /\ peer' = [peer EXCEPT ![id].finalizer = FALSE]

\* C19 -- Mutation frame: every step of a pass leaves the claims alone or
\* creates an absent claim or deletes the claim under a snapshot showing the
\* peer marked for deletion with the cleanup finalizer; leaves the workloads
\* alone or creates an absent workload; and leaves the peers alone or removes
\* the cleanup finalizer from a peer marked for deletion.
C19_MutationFrame ==
    [][\A id \in Ids :
          Pass(id) => ClaimFrame(id) /\ WorkloadFrame(id) /\ PeerFrame(id)]_vars

\* A pass deleted the claim while the peer's workload was still there.
C19_Witness ==
    \E id \in Ids :
       /\ Done(id) /\ Issued(id, "delete", "pvc") /\ result[id] = "nil"
       /\ IsDeleting(snap[id].peer) /\ hasPvcDeletionFinalizer(snap[id].peer)
       /\ pvc[id].deleting
       /\ rs[id] = defineReplicaSet(peer[id])

\* The store as one value.
Store == [peer |-> peer, pvc |-> pvc, rs |-> rs]

\* What the store holds under id.
Keyed(S, id) == <<S.peer[id], S.pvc[id], S.rs[id]>>

\* What the pass of id has read so far is what the store held under id.
ReadsOwn(id) ==
    /\ pc[id] \in {"gotPeer", "gotPVC", "collected", "exec", "delete", "patch"}
          => snap[id].peer = start.peer[id]
    /\ pc[id] \in {"gotPVC", "collected", "exec", "delete", "patch"}
          => snap[id].pvc = start.pvc[id]
    /\ pc[id] \in {"collected", "exec", "delete", "patch"}
          => snap[id].replicaSet = start.rs[id]

\* Every pass has returned.
AllDone == \A id \in ParIds : Done(id)

\* C20 -- Identity isolation: with one pass for each of two identities
\* interleaved in any way, a pass has read only what the store holds under
\* its own identity, the objects of an identity stay as they were until that
\* identity's own pass has ended, where they are what that pass run alone
\* leaves, and once both passes have ended the store is the one that either
\* order of running the two passes one after the other produces.
C20_IdentityIsolation ==
    /\ \A id \in ParIds :
          /\ ReadsOwn(id)
          /\ ~Done(id) => Keyed(Store, id) = Keyed(start, id)
          /\ Done(id) =>
                Keyed(Store, id) = Keyed(RunPass(id, start, NoFailure(id)), id)
    /\ AllDone =>
          \A a, b \in ParIds :
             a # b => Store = RunPass(b, RunPass(a, start, NoFailure(a)),
                                      NoFailure(b))

\* Both passes have ended: one created a claim, the other deleted one.
C20_Witness ==
    /\ AllDone
    /\ Effect(muts["one"]) = "create-pvc" /\ pvc["one"] # start.pvc["one"]
    /\ Effect(muts["two"]) = "delete-pvc" /\ pvc["two"] # start.pvc["two"]

====
